---- MODULE Spec2Model ----
(***************************************************************************)
(* examples/simple-chatbot/bot.py: the sprite animation built at import,   *)
(* the TalkingAnimation frame processor, and main()'s pipeline wiring and  *)
(* startup sequence.                                                       *)
(*                                                                         *)
(* TalkingAnimation.process_frame is a coroutine that awaits on lines 67,   *)
(* 71, 74 and 77: a call is a sequence of steps, one per stretch of code    *)
(* between two awaits, and any number of calls may be in progress at once. *)
(*                                                                         *)
(* Spec       the script from import to the running pipeline of main().    *)
(* SpecCalls  TalkingAnimation on its own, fed any sequence of frames,     *)
(*            with an observer that logs the frames it receives (ta_in)    *)
(*            and the frames it pushes (ta_out).                           *)
(***************************************************************************)
EXTENDS Integers, Sequences, FiniteSets, TLC

\* ---------------------------------------------------------------- bounds
\* frames the TTS stage pushes downstream in one run of Spec
MaxTTSFrames == 1
\* frames handed to TalkingAnimation in one run of SpecCalls
MaxCalls == 3

\* ------------------------------------------------------ program constants
\* range(1, 26), line 40
RangeStart == 1
RangeStop == 26

\* ------------------------------------------------------------------ frames
\* A frame is a record of its class and its payload.  image is the index i of
\* the asset file assets/robot0{i}.png whose bytes an ImageRawFrame carries
\* (0: no image); images is the list a SpriteFrame carries.
MkFrame(t) == [type |-> t, image |-> 0, images |-> <<>>]

ImageRawFrame(n) == [type |-> "ImageRawFrame", image |-> n, images |-> <<>>]

SpriteFrame(imgs) == [type |-> "SpriteFrame", image |-> 0, images |-> imgs]

AudioRawFrame == MkFrame("AudioRawFrame")

TTSStoppedFrame == MkFrame("TTSStoppedFrame")

LLMMessagesFrame == MkFrame("LLMMessagesFrame")

\* the value of quiet_frame / talking_frame before line 52 / 53 has run
Unbound == MkFrame("unbound")

\* isinstance(frame, AudioRawFrame), line 69
IsAudio(frame) == frame.type = "AudioRawFrame"

\* isinstance(frame, TTSStoppedFrame), line 73
IsTTSStopped(frame) == frame.type = "TTSStoppedFrame"

\* as if line 48 copied the list without reversing it
Reversed_NoFlip(s) == s

\* sprites[::-1], line 48
RECURSIVE Reversed(_)
Reversed(s) == IF s = <<>> THEN <<>> ELSE Append(Reversed(Tail(s)), Head(s))

\* ---------------------------------------------------------------- pipeline
\* as if TalkingAnimation were listed after the output transport
pipeline_TaAfterOutput ==
  << "transport.input", "user_response", "llm", "tts", "transport.output",
     "ta", "assistant_response" >>

\* Pipeline([...]), lines 235-243
pipeline ==
  << "transport.input", "user_response", "llm", "tts", "ta",
     "transport.output", "assistant_response" >>

Stages == { pipeline[k] : k \in 1..Len(pipeline) }

Pos(stage) == CHOOSE k \in 1..Len(pipeline) : pipeline[k] = stage

\* a frame travelling downstream: the stage that created it and the stages
\* that have processed it so far
Packet(frame, origin) == [frame |-> frame, origin |-> origin, trail |-> <<>>]

Visited(p, stage) == \E k \in 1..Len(p.trail) : p.trail[k] = stage

\* push_frame(frame) from `stage`: the frame goes to the next processor of the
\* pipeline; past the last processor it leaves the pipeline
PushDownstream(boxes, stage, packets) ==
  IF Pos(stage) = Len(pipeline) THEN boxes
  ELSE [boxes EXCEPT ![pipeline[Pos(stage) + 1]] = @ \o packets]

VARIABLES
  pc,             \* position of the script: module level, then main()
  i,              \* loop variable of line 40
  sprites,        \* line 36
  quiet_frame,    \* line 52
  talking_frame,  \* line 53
  is_talking,     \* TalkingAnimation._is_talking
  task_queue,     \* frames queued on the PipelineTask, not yet in the pipeline
  task_log,       \* every frame ever queued on the PipelineTask, in order
  joined,         \* on_first_participant_joined has run
  inbox,          \* per stage: the frames waiting to be processed by it
  tts_count,      \* frames pushed by the TTS stage so far
  calls,          \* the process_frame calls of TalkingAnimation in progress,
                  \* in the order they were entered: [pkt, pc, n, start]
  ta_in,          \* observer: every frame process_frame received, in order
  ta_out          \* observer: every push_frame of process_frame, in order:
                  \* [frame, line, n], n the position in ta_in of the frame
                  \* whose call made the push

vars == << pc, i, sprites, quiet_frame, talking_frame, is_talking, task_queue,
           task_log, joined, inbox, tts_count, calls, ta_in, ta_out >>

module_vars == << i, sprites, quiet_frame, talking_frame >>

main_vars == << task_queue, task_log, joined >>

observer_vars == << ta_in, ta_out >>

Init ==
  /\ pc = "load"
  /\ i = RangeStart
  /\ sprites = <<>>
  /\ quiet_frame = Unbound
  /\ talking_frame = Unbound
  /\ is_talking = FALSE
  /\ task_queue = <<>>
  /\ task_log = <<>>
  /\ joined = FALSE
  /\ inbox = [s \in Stages |-> <<>>]
  /\ tts_count = 0
  /\ calls = <<>>
  /\ ta_in = <<>>
  /\ ta_out = <<>>

\* ------------------------------------------------------------ module level
\* one iteration of the loop of lines 40-46
load_sprite ==
  /\ pc = "load"
  /\ i < RangeStop
  /\ sprites' = Append(sprites, ImageRawFrame(i))
  /\ i' = i + 1
  /\ UNCHANGED << pc, quiet_frame, talking_frame, is_talking, inbox,
                  tts_count, calls >>
  /\ UNCHANGED main_vars
  /\ UNCHANGED observer_vars

\* lines 48-49, once the loop is exhausted
extend_flipped ==
  /\ pc = "load"
  /\ ~(i < RangeStop)
  /\ LET flipped == Reversed(sprites)
     IN  sprites' = sprites \o flipped
  /\ pc' = "frames"
  /\ UNCHANGED << i, quiet_frame, talking_frame, is_talking, inbox,
                  tts_count, calls >>
  /\ UNCHANGED main_vars
  /\ UNCHANGED observer_vars

\* lines 52-53
define_frames ==
  /\ pc = "frames"
  /\ quiet_frame' = sprites[1]
  /\ talking_frame' = SpriteFrame(sprites)
  /\ pc' = "main"
  /\ UNCHANGED << i, sprites, is_talking, inbox, tts_count, calls >>
  /\ UNCHANGED main_vars
  /\ UNCHANGED observer_vars

\* ------------------------------------------------------------------ main()
\* as if line 246 were missing: the task is created but nothing is queued
main_queue_quiet_NoQueue ==
  /\ pc = "main"
  /\ is_talking' = FALSE
  /\ pc' = "queued"
  /\ UNCHANGED << joined, inbox, tts_count, calls >>
  /\ UNCHANGED << task_queue, task_log >>
  /\ UNCHANGED module_vars
  /\ UNCHANGED observer_vars

\* lines 81-246: the services, TalkingAnimation() (line 233, _is_talking =
\* False), the pipeline, the task, and await task.queue_frame(quiet_frame)
main_queue_quiet ==
  /\ pc = "main"
  /\ is_talking' = FALSE
  /\ task_queue' = Append(task_queue, quiet_frame)
  /\ task_log' = Append(task_log, quiet_frame)
  /\ pc' = "queued"
  /\ UNCHANGED << joined, inbox, tts_count, calls >>
  /\ UNCHANGED module_vars
  /\ UNCHANGED observer_vars

\* lines 248-255: the handler is registered and the runner starts the task
main_run ==
  /\ pc = "queued"
  /\ pc' = "running"
  /\ UNCHANGED << is_talking, inbox, tts_count, calls >>
  /\ UNCHANGED main_vars
  /\ UNCHANGED module_vars
  /\ UNCHANGED observer_vars

\* lines 249-251, run by the transport when the first participant joins
on_first_participant_joined ==
  /\ pc = "running"
  /\ ~joined
  /\ joined' = TRUE
  /\ task_queue' = task_queue \o << LLMMessagesFrame >>
  /\ task_log' = task_log \o << LLMMessagesFrame >>
  /\ UNCHANGED << pc, is_talking, inbox, tts_count, calls >>
  /\ UNCHANGED module_vars
  /\ UNCHANGED observer_vars

\* --------------------------------------------------- the running pipeline
\* the PipelineTask feeds the frames queued on it to the first processor
task_push ==
  /\ pc = "running"
  /\ task_queue # <<>>
  /\ inbox' = [inbox EXCEPT
                 ![pipeline[1]] = Append(@, Packet(Head(task_queue), "task"))]
  /\ task_queue' = Tail(task_queue)
  /\ UNCHANGED << pc, task_log, joined, tts_count, is_talking, calls >>
  /\ UNCHANGED module_vars
  /\ UNCHANGED observer_vars

\* what a processor other than TalkingAnimation pushes downstream for the
\* frame p it has processed: the LLM service takes the LLMMessagesFrame as its
\* input, every other frame is passed on
Forwarded(s, p) ==
  IF s = "llm" /\ p.frame = LLMMessagesFrame
  THEN <<>>
  ELSE << [p EXCEPT !.trail = Append(@, s)] >>

\* a processor other than TalkingAnimation processes its next frame
stage_forward(s) ==
  /\ pc = "running"
  /\ s # "ta"
  /\ inbox[s] # <<>>
  /\ inbox' = PushDownstream([inbox EXCEPT ![s] = Tail(@)], s,
                             Forwarded(s, Head(inbox[s])))
  /\ UNCHANGED << pc, tts_count, is_talking, calls >>
  /\ UNCHANGED main_vars
  /\ UNCHANGED module_vars
  /\ UNCHANGED observer_vars

\* the frames the TTS service produces that TalkingAnimation reacts to; frames
\* of other classes reach it from the task (quiet_frame)
TTSFrames == { AudioRawFrame, TTSStoppedFrame }

\* the TTS service pushes a frame of its own downstream
tts_push(f) ==
  /\ pc = "running"
  /\ tts_count < MaxTTSFrames
  /\ tts_count' = tts_count + 1
  /\ inbox' = PushDownstream(inbox, "tts", << Packet(f, "tts") >>)
  /\ UNCHANGED << pc, is_talking, calls >>
  /\ UNCHANGED main_vars
  /\ UNCHANGED module_vars
  /\ UNCHANGED observer_vars

\* --------------------------------------- TalkingAnimation.process_frame
\* A call in progress is calls[k]: pkt its frame argument as it travels the
\* pipeline, pc the await it is suspended at, n the position of its frame in
\* the observer's ta_in, start the value of _is_talking when it was entered.
\* Nothing limits how many calls are in progress.
Calls == 1..Len(calls)

Without(seq, k) == SubSeq(seq, 1, k - 1) \o SubSeq(seq, k + 1, Len(seq))

\* self.push_frame(talking_frame / quiet_frame), line 71 / 74
push_animation(frame) ==
  inbox' = PushDownstream(inbox, "ta", << Packet(frame, "ta") >>)

\* self.push_frame(frame) by the call k, line 77
push_argument(k) ==
  inbox' = PushDownstream(inbox, "ta",
                          << [calls[k].pkt EXCEPT !.trail = Append(@, "ta")] >>)

\* process_frame is called with the next frame that reaches TalkingAnimation
\* and suspends in super().process_frame, line 67
call_begin ==
  /\ pc = "running"
  /\ inbox["ta"] # <<>>
  /\ calls' = Append(calls, [pkt |-> Head(inbox["ta"]), pc |-> "await67",
                             n |-> Len(ta_in) + 1, start |-> is_talking])
  /\ inbox' = [inbox EXCEPT !["ta"] = Tail(@)]
  /\ UNCHANGED << pc, is_talking, tts_count >>
  /\ UNCHANGED main_vars
  /\ UNCHANGED module_vars

\* line 67 returns; lines 69-70 / 73 run up to the next push_frame, where the
\* call suspends again
call_after_super(k) ==
  /\ calls[k].pc = "await67"
  /\ IF IsAudio(calls[k].pkt.frame)
     THEN IF ~is_talking
          THEN /\ push_animation(talking_frame)
               /\ calls' = [calls EXCEPT ![k].pc = "await71"]
          ELSE /\ push_argument(k)
               /\ calls' = [calls EXCEPT ![k].pc = "await77"]
     ELSE IF IsTTSStopped(calls[k].pkt.frame)
          THEN /\ push_animation(quiet_frame)
               /\ calls' = [calls EXCEPT ![k].pc = "await74"]
          ELSE /\ push_argument(k)
               /\ calls' = [calls EXCEPT ![k].pc = "await77"]
  /\ UNCHANGED << pc, is_talking, tts_count >>
  /\ UNCHANGED main_vars
  /\ UNCHANGED module_vars

\* the push of line 71 returns; line 72, then the push of line 77
call_after_talking(k) ==
  /\ calls[k].pc = "await71"
  /\ is_talking' = TRUE
  /\ push_argument(k)
  /\ calls' = [calls EXCEPT ![k].pc = "await77"]
  /\ UNCHANGED << pc, tts_count >>
  /\ UNCHANGED main_vars
  /\ UNCHANGED module_vars

\* the push of line 74 returns; line 75, then the push of line 77
call_after_quiet(k) ==
  /\ calls[k].pc = "await74"
  /\ is_talking' = FALSE
  /\ push_argument(k)
  /\ calls' = [calls EXCEPT ![k].pc = "await77"]
  /\ UNCHANGED << pc, tts_count >>
  /\ UNCHANGED main_vars
  /\ UNCHANGED module_vars

\* the push of line 77 returns and so does process_frame
call_return(k) ==
  /\ calls[k].pc = "await77"
  /\ calls' = Without(calls, k)
  /\ UNCHANGED << pc, is_talking, inbox, tts_count >>
  /\ UNCHANGED main_vars
  /\ UNCHANGED module_vars

\* no observer is attached to TalkingAnimation
unobserved == UNCHANGED observer_vars

Next ==
  \/ load_sprite
  \/ extend_flipped
  \/ define_frames
  \/ main_queue_quiet
  \/ main_run
  \/ on_first_participant_joined
  \/ task_push
  \/ \E s \in Stages : stage_forward(s)
  \/ \E f \in TTSFrames : tts_push(f)
  \/ call_begin /\ unobserved
  \/ \E k \in Calls : call_after_super(k) /\ unobserved
  \/ \E k \in Calls : call_after_talking(k) /\ unobserved
  \/ \E k \in Calls : call_after_quiet(k) /\ unobserved
  \/ \E k \in Calls : call_return(k) /\ unobserved

Spec == Init /\ [][Next]_vars

\* ------------------------------------- TalkingAnimation taken on its own
\* the frames the stage before TalkingAnimation may push to it
CallFrames == { AudioRawFrame, TTSStoppedFrame, quiet_frame }

\* the stage before TalkingAnimation pushes a frame to it
frame_arrives(f) ==
  /\ pc = "running"
  /\ Len(ta_in) + Len(inbox["ta"]) < MaxCalls
  /\ inbox' = [inbox EXCEPT !["ta"] = Append(@, Packet(f, "tts"))]
  /\ UNCHANGED << pc, tts_count, is_talking, calls >>
  /\ UNCHANGED main_vars
  /\ UNCHANGED module_vars
  /\ UNCHANGED observer_vars

\* the observer logs the frame of the call being entered
observe_call ==
  /\ ta_in' = Append(ta_in, Head(inbox["ta"]).frame)
  /\ UNCHANGED ta_out

\* the line of the push_frame a call is suspended in
LineOf(at) == IF at = "await71" THEN 71 ELSE IF at = "await74" THEN 74 ELSE 77

\* the observer logs the push the call k makes in this step: the frame that
\* arrives at the processor after TalkingAnimation
observe_push(k) ==
  /\ LET next == pipeline[Pos("ta") + 1]
         pushed == inbox'[next][Len(inbox'[next])]
     IN  ta_out' = Append(ta_out, [frame |-> pushed.frame,
                                   line |-> LineOf(calls'[k].pc),
                                   n |-> calls[k].n])
  /\ UNCHANGED ta_in

NextCalls ==
  \/ load_sprite
  \/ extend_flipped
  \/ define_frames
  \/ main_queue_quiet
  \/ main_run
  \/ \E f \in CallFrames : frame_arrives(f)
  \/ call_begin /\ observe_call
  \/ \E k \in Calls : call_after_super(k) /\ observe_push(k)
  \/ \E k \in Calls : call_after_talking(k) /\ observe_push(k)
  \/ \E k \in Calls : call_after_quiet(k) /\ observe_push(k)
  \/ \E k \in Calls : call_return(k) /\ unobserved

SpecCalls == Init /\ [][NextCalls]_vars

\* ------------------------------------------------------------ properties
\* helpers over the observer's logs
IsForward(e) == e.line = 77

IsTalkingEmit(e) == ~IsForward(e) /\ e.frame = talking_frame

IsQuietEmit(e) == ~IsForward(e) /\ e.frame = quiet_frame

\* the pushes made by the call for the n-th received frame that pass Test
PushesOf(n, Test(_)) ==
  { p \in 1..Len(ta_out) : ta_out[p].n = n /\ Test(ta_out[p]) }

AnyPush(e) == TRUE

\* an audio frame was received before the k-th frame, with no TTSStoppedFrame
\* between the two
AudioSinceStop(k) ==
  \E j \in 1..(k - 1) :
    /\ IsAudio(ta_in[j])
    /\ \A m \in (j + 1)..(k - 1) : ~IsTTSStopped(ta_in[m])

FirstAudio(k) == IsAudio(ta_in[k]) /\ ~AudioSinceStop(k)

\* the step in which the call calls[k] returns
Returns(k) == calls[k].pc = "await77" /\ calls' = Without(calls, k)

\* a step of the call calls[k] other than its return
Steps(k) == Len(calls') >= Len(calls) /\ calls'[k].pc # calls[k].pc

AllIdle == calls = <<>>

\* C1: a process_frame call for an AudioRawFrame entered with _is_talking
\* false pushes talking_frame exactly once and returns with _is_talking true.
C1_AudioStartsTalking ==
  [][ \A k \in Calls :
        (Returns(k) /\ IsAudio(calls[k].pkt.frame) /\ ~calls[k].start)
          => /\ Cardinality(PushesOf(calls[k].n, IsTalkingEmit)) = 1
             /\ is_talking' ]_vars

\* C2: a process_frame call for a TTSStoppedFrame, entered talking or not,
\* pushes quiet_frame exactly once and returns with _is_talking false.
C2_StoppedGoesQuiet ==
  [][ \A k \in Calls :
        (Returns(k) /\ IsTTSStopped(calls[k].pkt.frame))
          => /\ Cardinality(PushesOf(calls[k].n, IsQuietEmit)) = 1
             /\ ~is_talking' ]_vars

\* C3: every received frame is pushed on unchanged exactly once, and the
\* pushes of line 77 are the received frames in the order they were received.
C3_ForwardsEveryFrame ==
  /\ \A n \in 1..Len(ta_in) :
       /\ Cardinality(PushesOf(n, IsForward)) <= 1
       /\ \A p \in PushesOf(n, IsForward) : ta_out[p].frame = ta_in[n]
  /\ AllIdle => \A n \in 1..Len(ta_in) : Cardinality(PushesOf(n, IsForward)) = 1
  /\ \A p, q \in 1..Len(ta_out) :
       (p < q /\ IsForward(ta_out[p]) /\ IsForward(ta_out[q]))
         => ta_out[p].n < ta_out[q].n

\* C4: talking_frame is pushed for the k-th received frame exactly when that
\* frame is the first AudioRawFrame since creation or since the latest
\* TTSStoppedFrame; two pushes of talking_frame have a push of quiet_frame
\* between them.
C4_TalkingOncePerEpisode ==
  /\ \A n \in 1..Len(ta_in) :
       /\ Cardinality(PushesOf(n, IsTalkingEmit)) <= 1
       /\ PushesOf(n, IsTalkingEmit) # {} => FirstAudio(n)
  /\ AllIdle => \A n \in 1..Len(ta_in) :
                  FirstAudio(n) => PushesOf(n, IsTalkingEmit) # {}
  /\ \A p, q \in 1..Len(ta_out) :
       (p < q /\ IsTalkingEmit(ta_out[p]) /\ IsTalkingEmit(ta_out[q]))
         => \E r \in (p + 1)..(q - 1) : IsQuietEmit(ta_out[r])

\* C5: when process_frame calls overlap and no TTSStoppedFrame has been
\* received, talking_frame is pushed at most once, and once the calls have
\* returned after an AudioRawFrame, _is_talking is true.
C5_OverlapEmitsOnce ==
  (\A k \in 1..Len(ta_in) : ~IsTTSStopped(ta_in[k]))
    => /\ Cardinality({ p \in 1..Len(ta_out) : IsTalkingEmit(ta_out[p]) }) <= 1
       /\ (AllIdle /\ inbox["ta"] = <<>>
             /\ \E k \in 1..Len(ta_in) : IsAudio(ta_in[k]))
          => is_talking

\* C8: a process_frame call for an AudioRawFrame entered while talking, or for
\* a frame that is neither an AudioRawFrame nor a TTSStoppedFrame, pushes only
\* its argument and none of its steps changes _is_talking.
C8_OtherFramesOnlyForwarded ==
  [][ \A k \in Calls :
        ( \/ IsAudio(calls[k].pkt.frame) /\ calls[k].start
          \/ ~IsAudio(calls[k].pkt.frame) /\ ~IsTTSStopped(calls[k].pkt.frame) )
          => /\ Steps(k) => is_talking' = is_talking
             /\ Returns(k)
                  => /\ Cardinality(PushesOf(calls[k].n, AnyPush)) = 1
                     /\ Cardinality(PushesOf(calls[k].n, IsForward)) = 1 ]_vars

\* C9: an animation frame is pushed right before the frame that triggered it
\* is forwarded: once that frame is forwarded, the animation frame is the
\* push just before it, talking_frame before an AudioRawFrame, quiet_frame
\* before a TTSStoppedFrame.
C9_AnimationBeforeForward ==
  \A p, q \in 1..Len(ta_out) :
    (~IsForward(ta_out[p]) /\ IsForward(ta_out[q]) /\ ta_out[p].n = ta_out[q].n)
      => /\ q = p + 1
         /\ IsTalkingEmit(ta_out[p]) => IsAudio(ta_out[q].frame)
         /\ IsQuietEmit(ta_out[p]) => IsTTSStopped(ta_out[q].frame)

\* C6: the animation is the 25 loaded frames in index order followed by the
\* same frames in reverse order: 50 elements, element k equal to element
\* 49 - k (from 0), quiet_frame the first element, talking_frame a SpriteFrame
\* of the whole sequence.
C6_SpritesThereAndBack ==
  /\ pc # "load"
      => /\ Len(sprites) = 50
         /\ \A k \in 1..25 : sprites[k] = ImageRawFrame(k)
         /\ \A k \in 1..25 : sprites[25 + k] = ImageRawFrame(26 - k)
         /\ \A k \in 0..49 : sprites[k + 1] = sprites[(49 - k) + 1]
  /\ pc \notin { "load", "frames" }
      => /\ quiet_frame = sprites[1]
         /\ quiet_frame = ImageRawFrame(1)
         /\ talking_frame.type = "SpriteFrame"
         /\ talking_frame.images = sprites
         /\ Len(talking_frame.images) = 50

C6_Witness ==
  /\ pc = "main"
  /\ Len(sprites) = 50
  /\ sprites[25] = sprites[26]
  /\ talking_frame.images = sprites

\* C7: the stages are wired input transport, user aggregator, LLM, TTS,
\* TalkingAnimation, output transport, assistant aggregator: a frame pushed
\* by the TTS stage has been processed by TalkingAnimation when it reaches the
\* output transport, and a frame that reaches the assistant aggregator has
\* been processed by the output transport.
C7_StageOrder ==
  /\ Pos("transport.input") < Pos("user_response")
  /\ Pos("user_response") < Pos("llm")
  /\ Pos("llm") < Pos("tts")
  /\ Pos("tts") < Pos("ta")
  /\ Pos("ta") < Pos("transport.output")
  /\ Pos("transport.output") < Pos("assistant_response")
  /\ Len(pipeline) = 7
  /\ \A k \in 1..Len(inbox["transport.output"]) :
       LET p == inbox["transport.output"][k]
       IN  p.origin = "tts" => Visited(p, "ta")
  /\ \A k \in 1..Len(inbox["assistant_response"]) :
       LET p == inbox["assistant_response"][k]
       IN  /\ Visited(p, "transport.output")
           /\ p.origin = "tts" => p.trail = << "ta", "transport.output" >>

\* a frame of the TTS stage has reached the assistant aggregator
C7_Witness ==
  \E k \in 1..Len(inbox["assistant_response"]) :
    /\ inbox["assistant_response"][k].origin = "tts"
    /\ inbox["assistant_response"][k].trail = << "ta", "transport.output" >>

\* C10: quiet_frame is queued on the task before the runner starts it and
\* before any LLMMessagesFrame; the LLMMessagesFrame is queued only by
\* on_first_participant_joined.
C10_QuietQueuedFirst ==
  /\ pc \in { "queued", "running" }
       => (Len(task_log) >= 1 /\ task_log[1] = quiet_frame)
  /\ pc = "queued" => task_queue = << quiet_frame >>
  /\ \A k \in 1..Len(task_log) :
       task_log[k] = LLMMessagesFrame
         => (joined /\ pc = "running" /\ k > 1 /\ task_log[1] = quiet_frame)
  /\ ~joined => \A k \in 1..Len(task_log) : task_log[k] # LLMMessagesFrame

C10_Witness ==
  /\ joined
  /\ task_log = << quiet_frame, LLMMessagesFrame >>
====
